---- MODULE Spec2Model ----
(***************************************************************************)
(* WhoRang AI Doorbell integration: the data-update coordinator            *)
(* (polling, WebSocket listener with reconnect, pushed-event merge,        *)
(* service calls writing into the cached dictionary) and the intelligent   *)
(* automation engine, as state machines at await granularity.              *)
(***************************************************************************)
EXTENDS Integers, Naturals, Sequences, FiniteSets, TLC

VARIABLES
    data,               \* coordinator.data: a dict (function on its keys) or None
    _last_visitor_id,   \* coordinator._last_visitor_id
    _websocket,         \* coordinator._websocket: "None", "open" or "closed" (object kept, connection closed)
    _websocket_task,    \* coordinator._websocket_task: "None" or "task"
    enable_websocket,   \* coordinator.enable_websocket
    reconnect_delay,    \* local of _websocket_handler
    wsPc,               \* position of the _websocket_handler task
    established,        \* the handler sleeps after losing a connection that had been established
    phase,              \* config-entry lifecycle of the coordinator
    pollPc,             \* position of _async_update_data
    poll_latest,        \* local latest_visitor of the poll in flight (its visitor_id)
    refresh_requested,  \* async_request_refresh was called and no poll has started since
    backend_latest,     \* visitor_id of the newest visitor stored by the backend
    announced,          \* the visitor ids for which the bus has carried a visitor-detected event
    ws_pending,         \* new_visitor messages the backend sent over the open connection
                        \* that _websocket_handler has not received yet (visitor ids)
    svcPc,              \* position of async_process_doorbell_event: "idle", or awaiting
                        \* the backend request, named by the answer it will get
    fired,              \* events put on the bus by the last step
    notified,           \* the last step called async_set_updated_data / set data and notified entities
    returned,           \* return value of the call the last step completed
    config,             \* coordinator.automation_engine.config, None without an engine
    _is_running,        \* automation_engine._is_running
    _camera_monitor,    \* automation_engine._camera_monitor: 0 for None, n for the n-th
                        \* CameraMonitoringService object
    listeners,          \* state-change listeners registered with the host and not removed
    lifecycle,          \* the last of automation_started / automation_stopped on the bus
    pipeline,           \* position of _handle_camera_event, with the answers the
                        \* camera service and the backend give to this run
    flowStep,           \* what the config flow returned last: the form shown
                        \* ("user", "ai_providers"), "create_entry", "abort"; "none" before a flow
    flow_errors,        \* errors["base"] of the form shown, or the reason of the abort
    _config_data,       \* ConfigFlow._config_data: None, or title and parsed_data (the host:port)
    entries,            \* the config entries of the domain
    submitted,          \* what the last step of the flow found in its user_input
    display_players,    \* MediaIntegrationService.display_players of the service call in flight
    display_duration,   \* MediaIntegrationService.display_duration
    displayPc,          \* _display_snapshot: index of the player the for loop takes next,
                        \* 0 when no call is in flight
    player,             \* the loop variable of _display_snapshot, which stop_display reads
    stop_tasks,         \* stop_display tasks created and not yet past their sleep
    played,             \* entity_ids the call sent media_player.play_media with the snapshot to
    stopped,            \* for every entity_id, the media_player.media_stop calls addressed to it
    url_input,          \* argument of parse_whorang_url, as a sequence of tokens
    parsed              \* what parse_whorang_url returned or raised for it

vars == <<data, _last_visitor_id, _websocket, _websocket_task, enable_websocket,
          reconnect_delay, wsPc, established, phase, pollPc,
          poll_latest, refresh_requested, backend_latest, announced, ws_pending,
          svcPc, fired, notified,
          returned, config, _is_running, _camera_monitor, listeners, lifecycle, pipeline,
          flowStep, flow_errors, _config_data, entries, submitted,
          display_players, display_duration, displayPc, player, stop_tasks, played, stopped,
          url_input, parsed>>

wsVars == <<_websocket, _websocket_task, reconnect_delay, wsPc, established>>
pollVars == <<pollPc, poll_latest>>
busVars == <<announced, ws_pending>>
engineVars == <<config, _is_running, _camera_monitor, listeners, lifecycle, pipeline>>
flowVars == <<flowStep, flow_errors, _config_data, entries, submitted>>
parseVars == <<url_input, parsed>>
displayVars == <<display_players, display_duration, displayPc, player, stop_tasks, played, stopped>>
coordinatorVars == <<data, _last_visitor_id, wsVars, enable_websocket, phase, pollVars,
                     refresh_requested, backend_latest, busVars, svcPc>>

(***************************************************************************)
(* Bounds                                                                  *)
(***************************************************************************)
MaxVisitor == 1     \* visitor ids 1..MaxVisitor
MaxToday == 1       \* cap of visitor_stats.today
MaxStarts == 2      \* CameraMonitoringService objects created by async_start
MaxUrlLen == 4      \* tokens of a url_input
MaxPlayers == 2     \* display players of a play_doorbell_sequence call

(***************************************************************************)
(* Values                                                                  *)
(***************************************************************************)
NoVisitor == 0              \* visitor_id None
ServiceCallVisitor == -1    \* visitor_id "service_call_<timestamp>"

None == [none |-> TRUE]
EmptyDict == [k \in {} |-> TRUE]

Truthy(d) == d # None /\ DOMAIN d # {}

Merge(d, e) == [k \in (DOMAIN d) \cup (DOMAIN e) |-> IF k \in DOMAIN e THEN e[k] ELSE d[k]]

Get(d, k, default) == IF k \in DOMAIN d THEN d[k] ELSE default

EmptyVisitor == [visitor_id |-> NoVisitor, source |-> "none", analysis |-> FALSE]
EmptySystemInfo == [polled |-> FALSE, last_service_call |-> FALSE]

\* the structure built in __init__ and returned by a failing poll without data
MinimalData ==
    [latest_visitor |-> EmptyVisitor,
     latest_image |-> "{}",
     doorbell_state |-> "{}",
     visitor_stats |-> EmptyDict,
     system_info |-> EmptySystemInfo,
     last_service_call |-> "{}"]

PreservedKeys == {"latest_image", "doorbell_state", "visitor_stats", "last_service_call"}

max_reconnect_delay == 60
initial_reconnect_delay == 1

Min(a, b) == IF a < b THEN a ELSE b

\* the value a completed call returned, with the call's name
Return(call, value) == [call |-> call, value |-> value]
NoReturn == Return("none", "None")

\* parse_whorang_url has not been called
NotParsed == [kind |-> "pending"]

\* what a step of the config flow found: the outcome of validate_input and
\* of _test_api_keys, "none" for what the step did not run
Submitted(validated, keys) == [validated |-> validated, keys |-> keys]

\* a run of _handle_camera_event: where it is, and whether camera.snapshot
\* and the backend answer its calls successfully
Pipeline(pc, snapshot_ok, backend_ok) == [pc |-> pc, snapshot_ok |-> snapshot_ok, backend_ok |-> backend_ok]

\* the media players of the house
Players == {"media_player.hall", "media_player.kitchen", "media_player.office"}

(***************************************************************************)
(* Initial state: the coordinator after __init__ of a config entry that    *)
(* is being set up; the host base class's constructor runs after the       *)
(* assignment of self.data and leaves data None until the first refresh,   *)
(* a host that keeps the assignment leaves the six-key structure.          *)
(***************************************************************************)
Constructed ==
    /\ data \in {None, MinimalData}
    /\ _last_visitor_id = NoVisitor
    /\ _websocket = "None"
    /\ _websocket_task = "None"
    /\ enable_websocket \in BOOLEAN
    /\ reconnect_delay = initial_reconnect_delay
    /\ wsPc = "none"
    /\ established = FALSE
    /\ phase = "first_refresh"
    /\ pollPc = "idle"
    /\ poll_latest = NoVisitor
    /\ refresh_requested = FALSE
    /\ backend_latest \in 0..MaxVisitor
    /\ announced = {}
    /\ ws_pending = {}
    /\ svcPc = "idle"
    /\ fired = <<>>
    /\ notified = FALSE
    /\ returned = NoReturn
    /\ config = None
    /\ _is_running = FALSE
    /\ _camera_monitor = 0
    /\ listeners = 0
    /\ lifecycle = "none"
    /\ pipeline = Pipeline("idle", FALSE, FALSE)
    /\ flowStep = "none"
    /\ flow_errors = "none"
    /\ _config_data = None
    /\ entries = {}
    /\ submitted = Submitted("none", "none")
    /\ display_players = <<>>
    /\ display_duration = 0
    /\ displayPc = 0
    /\ player = "unbound"
    /\ stop_tasks = 0
    /\ played = {}
    /\ stopped = [p \in Players |-> 0]

Init ==
    /\ Constructed
    /\ url_input = <<>>
    /\ parsed = NotParsed

\* outputs of a step that completes no call, fires nothing and notifies nobody
Quiet == fired' = <<>> /\ notified' = FALSE /\ returned' = NoReturn

(***************************************************************************)
(* Config-entry lifecycle: async_setup_entry runs the first refresh, then  *)
(* async_setup; async_unload_entry runs async_shutdown.                    *)
(***************************************************************************)
\* the handler task has been cancelled and has not yet been resumed
CancelRequested == phase = "stopping" /\ wsPc # "cancelled"

\* async_setup -> _start_websocket
AsyncSetup ==
    /\ phase = "setup"
    /\ phase' = "running"
    /\ IF enable_websocket /\ _websocket_task = "None"
          THEN /\ _websocket_task' = "task"
               /\ wsPc' = "connect"
          ELSE UNCHANGED <<_websocket_task, wsPc>>
    /\ Quiet
    /\ UNCHANGED <<data, _last_visitor_id, _websocket, enable_websocket, reconnect_delay,
                   established, pollVars, refresh_requested, backend_latest, svcPc>>
    /\ UNCHANGED <<busVars, engineVars, flowVars, parseVars, displayVars>>

(***************************************************************************)
(* _websocket_handler                                                      *)
(***************************************************************************)
ConnectErrors == {"InvalidStatusCode400", "InvalidStatusCode401", "InvalidStatusCode503",
                  "ConnectionClosed", "OSError", "Exception"}
LossErrors == {"ConnectionClosed", "OSError", "Exception"}

WsRunning == _websocket_task = "task" /\ ~CancelRequested

\* variant: the delay is not reset when the connection succeeds
WsConnectOk_NoReset ==
    /\ WsRunning /\ wsPc = "connect"
    /\ _websocket' = "open"
    /\ wsPc' = "listen"
    /\ Quiet
    /\ UNCHANGED <<data, _last_visitor_id, _websocket_task, enable_websocket, established,
                   reconnect_delay, phase, pollVars, refresh_requested, backend_latest, svcPc>>
    /\ ws_pending' = {}
    /\ UNCHANGED announced
    /\ UNCHANGED <<engineVars, flowVars, parseVars, displayVars>>

\* websockets.connect succeeds: lines 284-291
WsConnectOk ==
    /\ WsRunning /\ wsPc = "connect"
    /\ _websocket' = "open"
    /\ reconnect_delay' = initial_reconnect_delay
    /\ wsPc' = "listen"
    /\ Quiet
    /\ UNCHANGED <<data, _last_visitor_id, _websocket_task, enable_websocket, established,
                   phase, pollVars, refresh_requested, backend_latest, svcPc>>
    /\ ws_pending' = {}
    /\ UNCHANGED announced
    /\ UNCHANGED <<engineVars, flowVars, parseVars, displayVars>>

\* variant: a rejected authentication (401) ends the handler instead of retrying
HandlerExcept_GivesUp(err) ==
    /\ err \in ConnectErrors
    /\ _websocket' = "None"
    /\ wsPc' = IF err = "InvalidStatusCode401" THEN "exited" ELSE "sleep"

\* what each except clause does before it sleeps: lines 300-323
HandlerExcept(err) ==
    /\ err \in ConnectErrors
    /\ _websocket' = "None"
    /\ wsPc' = "sleep"

\* websockets.connect raises
WsConnectFail(err) ==
    /\ WsRunning /\ wsPc = "connect"
    /\ HandlerExcept(err)
    /\ established' = FALSE
    /\ Quiet
    /\ UNCHANGED <<data, _last_visitor_id, _websocket_task, enable_websocket, reconnect_delay,
                   phase, pollVars, refresh_requested, backend_latest, svcPc>>
    /\ UNCHANGED <<busVars, engineVars, flowVars, parseVars, displayVars>>

\* the message loop raises: the established connection is lost
WsConnectionLost(err) ==
    /\ WsRunning /\ wsPc = "listen"
    /\ err \in LossErrors
    /\ HandlerExcept(err)
    /\ established' = TRUE
    /\ Quiet
    /\ UNCHANGED <<data, _last_visitor_id, _websocket_task, enable_websocket, reconnect_delay,
                   phase, pollVars, refresh_requested, backend_latest, svcPc>>
    /\ UNCHANGED <<busVars, engineVars, flowVars, parseVars, displayVars>>

\* the server closes normally: the async-for ends, the async-with exits and
\* the while loop starts over; no except clause runs
WsLoopEnd ==
    /\ WsRunning /\ wsPc = "listen"
    /\ _websocket' = "closed"
    /\ wsPc' = "connect"
    /\ Quiet
    /\ UNCHANGED <<data, _last_visitor_id, _websocket_task, enable_websocket, reconnect_delay,
                   established, phase, pollVars, refresh_requested, backend_latest, svcPc>>
    /\ UNCHANGED <<busVars, engineVars, flowVars, parseVars, displayVars>>

\* the delay after a sleep: min(reconnect_delay * 2, max_reconnect_delay)
NextDelay(d) == Min(d * 2, max_reconnect_delay)

\* asyncio.sleep(reconnect_delay) returns
WsSleepDone ==
    /\ WsRunning /\ wsPc = "sleep"
    /\ reconnect_delay' = NextDelay(reconnect_delay)
    /\ wsPc' = "connect"
    /\ established' = FALSE
    /\ Quiet
    /\ UNCHANGED <<data, _last_visitor_id, _websocket, _websocket_task, enable_websocket,
                   phase, pollVars, refresh_requested, backend_latest, svcPc>>
    /\ UNCHANGED <<busVars, engineVars, flowVars, parseVars, displayVars>>

(***************************************************************************)
(* async_shutdown -> _stop_websocket                                       *)
(***************************************************************************)
\* _stop_websocket up to "await self._websocket_task"; without a task it
\* runs to its end
StopWebsocketCancel ==
    /\ phase = "running"
    /\ phase' = IF _websocket_task = "None" THEN "shutdown" ELSE "stopping"
    /\ _websocket' = IF _websocket_task = "None" THEN "None" ELSE _websocket
    /\ Quiet
    /\ UNCHANGED <<data, _last_visitor_id, _websocket_task, enable_websocket, reconnect_delay,
                   wsPc, established, pollVars, refresh_requested, backend_latest, svcPc>>
    /\ UNCHANGED <<busVars, engineVars, flowVars, parseVars, displayVars>>

\* the handler task is resumed with CancelledError, which no except clause
\* of the handler catches; the async-with closes an open connection
WsCancelled ==
    /\ _websocket_task = "task" /\ CancelRequested
    /\ wsPc' = "cancelled"
    /\ _websocket' = IF _websocket = "open" THEN "closed" ELSE _websocket
    /\ established' = FALSE
    /\ Quiet
    /\ UNCHANGED <<data, _last_visitor_id, _websocket_task, enable_websocket, reconnect_delay,
                   phase, pollVars, refresh_requested, backend_latest, svcPc>>
    /\ UNCHANGED <<busVars, engineVars, flowVars, parseVars, displayVars>>

\* variant: the reference to the closed connection is kept
StopWebsocketFinish_KeepsWebsocket ==
    /\ phase = "stopping" /\ wsPc = "cancelled"
    /\ _websocket_task' = "None"
    /\ phase' = "shutdown"
    /\ Quiet
    /\ UNCHANGED <<data, _last_visitor_id, _websocket, enable_websocket, reconnect_delay, wsPc,
                   established, pollVars, refresh_requested, backend_latest, svcPc>>
    /\ UNCHANGED <<busVars, engineVars, flowVars, parseVars, displayVars>>

\* _stop_websocket after the cancelled task has ended
StopWebsocketFinish ==
    /\ phase = "stopping" /\ wsPc = "cancelled"
    /\ _websocket_task' = "None"
    /\ _websocket' = "None"
    /\ phase' = "shutdown"
    /\ Quiet
    /\ UNCHANGED <<data, _last_visitor_id, enable_websocket, reconnect_delay, wsPc,
                   established, pollVars, refresh_requested, backend_latest, svcPc>>
    /\ UNCHANGED <<busVars, engineVars, flowVars, parseVars, displayVars>>

(***************************************************************************)
(* _async_update_data, and the host storing what it returns                *)
(***************************************************************************)
Event(type, visitor_id) == [type |-> type, visitor_id |-> visitor_id]

\* _is_known_visitor selects the event type of _handle_new_visitor
VisitorEventType(is_known_visitor) ==
    IF is_known_visitor THEN "whorang_known_visitor_detected" ELSE "whorang_visitor_detected"

\* the events that announce a visitor
VisitorEvents == {"whorang_visitor_detected", "whorang_known_visitor_detected"}

\* the events of a step that announce visitor v
Announcing(events, v) ==
    {i \in DOMAIN events : events[i].type \in VisitorEvents /\ events[i].visitor_id = v}

\* the bus carries the events a step fired: the visitors (of the backend's
\* ids) they announce have been announced
Carried(a, events) == a \cup {v \in 1..MaxVisitor : Announcing(events, v) # {}}

PolledVisitor(v) ==
    IF v = NoVisitor THEN EmptyVisitor
    ELSE [visitor_id |-> v, source |-> "backend", analysis |-> FALSE]

\* updated_data of lines 177-190 for the fetched latest visitor v
PolledData(v) ==
    [system_info |-> [polled |-> TRUE, last_service_call |-> FALSE],
     latest_visitor |-> PolledVisitor(v),
     known_persons |-> "polled",
     face_gallery_data |-> "polled",
     ai_usage |-> "polled",
     current_ai_provider |-> "polled",
     current_ai_model |-> "polled",
     available_models |-> "polled",
     ollama_models |-> "polled",
     ollama_status |-> "polled",
     last_update |-> "polled",
     websocket_connected |-> (_websocket = "open")]

\* lines 192-196: the keys copied from the existing data
Preserved(d) ==
    IF Truthy(d)
       THEN [k \in PreservedKeys \cap DOMAIN d |-> d[k]]
       ELSE EmptyDict

UpdatedData(d, v) == Merge(PolledData(v), Preserved(d))

\* variant: the except clause always returns the minimal structure
FailedPollData_Minimal(d) == MinimalData

\* lines 201-215: what a poll returns when a step raised
FailedPollData(d) == IF Truthy(d) THEN d ELSE MinimalData

\* which return statement of the except clause runs; nothing is raised
FailedPollReturn(d) == IF Truthy(d) THEN "self.data" ELSE "minimal"

PollPhaseDone == IF phase = "first_refresh" THEN "setup" ELSE phase

\* the poll starts and fetches up to the latest visitor (lines 92-95);
\* get_latest_visitor returns None when the request fails or there is none
PollStart ==
    /\ pollPc = "idle"
    /\ phase \in {"first_refresh", "running"}
    /\ \E v \in {NoVisitor, backend_latest} : poll_latest' = v
    /\ pollPc' = "fetched"
    /\ refresh_requested' = FALSE
    /\ Quiet
    /\ UNCHANGED <<data, _last_visitor_id, wsVars, enable_websocket, phase, backend_latest, svcPc>>
    /\ UNCHANGED <<busVars, engineVars, flowVars, parseVars, displayVars>>

IsNewVisitor == poll_latest # NoVisitor /\ poll_latest # _last_visitor_id

\* the remaining fetches succeed; lines 171-199, then the host sets data
PollSucceed ==
    /\ pollPc = "fetched"
    /\ \E is_known \in BOOLEAN :
          IF IsNewVisitor
             THEN /\ _last_visitor_id' = poll_latest
                  /\ fired' = <<Event(VisitorEventType(is_known), poll_latest)>>
             ELSE /\ is_known = FALSE
                  /\ fired' = <<>>
                  /\ UNCHANGED _last_visitor_id
    /\ data' = UpdatedData(data, poll_latest)
    /\ notified' = TRUE
    /\ returned' = Return("_async_update_data", "updated_data")
    /\ pollPc' = "idle"
    /\ poll_latest' = NoVisitor
    /\ phase' = PollPhaseDone
    /\ UNCHANGED <<wsVars, enable_websocket, refresh_requested, backend_latest, svcPc>>
    /\ announced' = Carried(announced, fired')
    /\ UNCHANGED ws_pending
    /\ UNCHANGED <<engineVars, flowVars, parseVars, displayVars>>

PollFailPoints == {"known_persons", "is_known_visitor"}

\* a step raises: at line 99 (a person record without "id"), or inside
\* _handle_new_visitor at _is_known_visitor after _last_visitor_id was set
PollFail(point) ==
    /\ pollPc = "fetched"
    /\ point \in PollFailPoints
    /\ IF point = "is_known_visitor"
          THEN IsNewVisitor /\ _last_visitor_id' = poll_latest
          ELSE UNCHANGED _last_visitor_id
    /\ data' = FailedPollData(data)
    /\ fired' = <<>>
    /\ notified' = TRUE
    /\ returned' = Return("_async_update_data", FailedPollReturn(data))
    /\ pollPc' = "idle"
    /\ poll_latest' = NoVisitor
    /\ phase' = PollPhaseDone
    /\ UNCHANGED <<wsVars, enable_websocket, refresh_requested, backend_latest, svcPc>>
    /\ UNCHANGED <<busVars, engineVars, flowVars, parseVars, displayVars>>

\* the backend stores a new visitor (somebody rings)
BackendNewVisitor ==
    /\ backend_latest < MaxVisitor
    /\ backend_latest' = backend_latest + 1
    /\ Quiet
    /\ UNCHANGED <<data, _last_visitor_id, wsVars, enable_websocket, phase, pollVars,
                   refresh_requested, svcPc>>
    /\ ws_pending' = (IF _websocket = "open" THEN ws_pending \cup {backend_latest'} ELSE ws_pending)
    /\ UNCHANGED announced
    /\ UNCHANGED <<engineVars, flowVars, parseVars, displayVars>>

(***************************************************************************)
(* _handle_websocket_message and the type handlers                         *)
(***************************************************************************)
JsonTypes == {"new_visitor", "ai_analysis_complete", "face_recognized", "system_status",
              "connection_status", "database_cleared", "analysis_started",
              "analysis_complete", "analysis_error", "unknown"}

\* types whose branch calls a handler that reads message_data with .get()
HandlerTypes == JsonTypes \ {"connection_status", "unknown"}

Msg(fmt, type, visitor_id, data_is_dict) ==
    [fmt |-> fmt, type |-> type, visitor_id |-> visitor_id, data_is_dict |-> data_is_dict]

\* text frames: plain strings, strings starting with "{" that do not parse,
\* JSON objects; and binary frames
WsMessages ==
    {Msg("string", t, NoVisitor, FALSE) : t \in {"new_visitor", "unknown"}}
    \cup {Msg("badjson", "unknown", NoVisitor, FALSE), Msg("bytes", "unknown", NoVisitor, FALSE)}
    \cup {Msg("json", t, v, TRUE) : t \in JsonTypes, v \in 0..MaxVisitor}
    \cup {Msg("json", t, NoVisitor, FALSE) : t \in JsonTypes}

AnalysisStatus(visitor_id, status) == [visitor_id |-> visitor_id, status |-> status]

\* self.data["latest_visitor"].update({...}) when the key exists
WithAnalysedVisitor(d) ==
    IF "latest_visitor" \in DOMAIN d
       THEN Merge(d, [latest_visitor |-> [d["latest_visitor"] EXCEPT !.analysis = TRUE]])
       ELSE d

\* _handle_ai_analysis_complete, lines 500-521
AiAnalysisCompleteData(d, v) ==
    IF Truthy(d)
       THEN Merge(WithAnalysedVisitor(d), [analysis_status |-> AnalysisStatus(v, "completed")])
       ELSE d

\* _handle_database_cleared, lines 631-633
DatabaseClearedData(d) ==
    IF Truthy(d) THEN Merge(d, [visitor_stats |-> EmptyDict]) ELSE d

\* _handle_analysis_started, lines 640-648
AnalysisStartedData(d, v) ==
    IF Truthy(d)
       THEN Merge(d, [ai_processing |-> TRUE, analysis_status |-> AnalysisStatus(v, "started")])
       ELSE d

\* _handle_analysis_complete_auto, lines 666-689
AnalysisCompleteData(d, v) ==
    IF Truthy(d)
       THEN Merge(WithAnalysedVisitor(d),
                  [ai_processing |-> FALSE, analysis_status |-> AnalysisStatus(v, "completed")])
       ELSE d

\* variant: the error handler leaves ai_processing as it was
AnalysisErrorData_KeepsProcessing(d, v) ==
    IF Truthy(d)
       THEN Merge(d, [analysis_status |-> AnalysisStatus(v, "error")])
       ELSE d

\* _handle_analysis_error, lines 711-719
AnalysisErrorData(d, v) ==
    IF Truthy(d)
       THEN Merge(d, [ai_processing |-> FALSE, analysis_status |-> AnalysisStatus(v, "error")])
       ELSE d

\* the data after the handler of a JSON message of this type
HandledData(d, type, v) ==
    CASE type = "ai_analysis_complete" -> AiAnalysisCompleteData(d, v)
      [] type = "database_cleared" -> DatabaseClearedData(d)
      [] type = "analysis_started" -> AnalysisStartedData(d, v)
      [] type = "analysis_complete" -> AnalysisCompleteData(d, v)
      [] type = "analysis_error" -> AnalysisErrorData(d, v)
      [] OTHER -> d

\* the event a handler fires
HandledEvents(type, v, is_known) ==
    CASE type = "new_visitor" -> <<Event(VisitorEventType(is_known), v)>>
      [] type = "ai_analysis_complete" -> <<Event("whorang_ai_analysis_complete", v)>>
      [] type = "face_recognized" -> <<Event("whorang_face_recognized", v)>>
      [] type = "database_cleared" -> <<Event("whorang_database_cleared", NoVisitor)>>
      [] type = "analysis_started" -> <<Event("whorang_analysis_started", v)>>
      [] type = "analysis_complete" -> <<Event("whorang_analysis_complete", v)>>
      [] type = "analysis_error" -> <<Event("whorang_analysis_error", v)>>
      [] OTHER -> <<>>

\* handlers that call async_set_updated_data when data is truthy
NotifyingTypes == {"ai_analysis_complete", "database_cleared", "analysis_started",
                   "analysis_complete", "analysis_error"}

\* _handle_websocket_message returns None, whatever happened inside
MessageHandled == Return("_handle_websocket_message", "None")
QuietMessage == fired' = <<>> /\ notified' = FALSE /\ returned' = MessageHandled

\* _handle_json_message raises inside a handler: message_data is not a dict
HandlerRaises(m) == m.type \in HandlerTypes /\ ~m.data_is_dict

\* _handle_json_message, lines 411-465
HandleJsonMessage(m) ==
    IF HandlerRaises(m)
       THEN /\ QuietMessage
            /\ UNCHANGED <<data, _last_visitor_id, refresh_requested>>
       ELSE /\ data' = HandledData(data, m.type, m.visitor_id)
            /\ _last_visitor_id' = IF m.type = "new_visitor" THEN m.visitor_id ELSE _last_visitor_id
            /\ \E is_known \in BOOLEAN :
                  /\ is_known => m.type = "new_visitor"
                  /\ fired' = HandledEvents(m.type, m.visitor_id, is_known)
            /\ notified' = (m.type \in NotifyingTypes /\ Truthy(data))
            /\ returned' = MessageHandled
            /\ refresh_requested' = TRUE

\* _handle_string_message, lines 378-409: every branch requests a refresh
HandleStringMessage(m) ==
    /\ refresh_requested' = TRUE
    /\ QuietMessage
    /\ UNCHANGED <<data, _last_visitor_id>>

\* one message of the async-for: _handle_websocket_message, lines 326-376
WsMessage(m) ==
    /\ WsRunning /\ wsPc = "listen"
    /\ m \in WsMessages
    /\ CASE m.fmt = "json" -> HandleJsonMessage(m)
         [] m.fmt \in {"string", "badjson"} -> HandleStringMessage(m)
         [] OTHER -> /\ QuietMessage
                     /\ UNCHANGED <<data, _last_visitor_id, refresh_requested>>
    /\ UNCHANGED <<wsVars, enable_websocket, phase, pollVars, backend_latest, svcPc>>
    /\ announced' = Carried(announced, fired')
    /\ ws_pending' = (IF m.fmt = "json" /\ m.type = "new_visitor" THEN ws_pending \ {m.visitor_id} ELSE ws_pending)
    /\ UNCHANGED <<engineVars, flowVars, parseVars, displayVars>>

(***************************************************************************)
(* Service calls                                                           *)
(***************************************************************************)
\* coordinator.data or {} (lines 901-902 and the services' "is None" checks)
DataOrEmpty(d) == IF d = None THEN EmptyDict ELSE d

ServiceVisitor == [visitor_id |-> ServiceCallVisitor, source |-> "service_call", analysis |-> FALSE]

\* lines 925-933: the counter of today's visitors
CountedStats(stats, same_day) ==
    IF "today" \in DOMAIN stats /\ same_day
       THEN [stats EXCEPT !.today = @ + 1]
       ELSE [today |-> 1, date |-> "today"]

\* lines 905-943: the data after an accepted doorbell event
DoorbellEventData(d, same_day) ==
    LET base == DataOrEmpty(d)
        stats == Get(base, "visitor_stats", EmptyDict)
        info == Get(base, "system_info", EmptySystemInfo)
    IN  Merge(base,
              [latest_visitor |-> ServiceVisitor,
               latest_image |-> "service_call",
               doorbell_state |-> "service_call",
               last_service_call |-> "service_call",
               visitor_stats |-> CountedStats(stats, same_day),
               system_info |-> [info EXCEPT !.last_service_call = TRUE]])

\* the backend's answer to POST /api/webhook/doorbell: success true, success
\* false or missing, or no answer (request or status error)
BackendAnswers == {"accepted", "rejected", "request_failed"}

\* variant: the call is recorded in last_service_call before it is validated
ProcessDoorbellCall_RecordsCall(has_image_url) ==
    /\ phase = "running" /\ svcPc = "idle"
    /\ IF has_image_url
          THEN /\ svcPc' \in BackendAnswers
               /\ returned' = NoReturn
          ELSE /\ svcPc' = "idle"
               /\ returned' = Return("async_process_doorbell_event", "False")
    /\ data' = Merge(DataOrEmpty(data), [last_service_call |-> "service_call"])
    /\ fired' = <<>>
    /\ notified' = FALSE
    /\ UNCHANGED <<_last_visitor_id, wsVars, enable_websocket, phase, pollVars,
                   refresh_requested, backend_latest>>
    /\ UNCHANGED <<busVars, engineVars, flowVars, parseVars, displayVars>>

\* process_doorbell_event_service -> async_process_doorbell_event up to the
\* backend request; without an image_url both return before it
ProcessDoorbellCall(has_image_url) ==
    /\ phase = "running" /\ svcPc = "idle"
    /\ IF has_image_url
          THEN /\ svcPc' \in BackendAnswers
               /\ returned' = NoReturn
          ELSE /\ svcPc' = "idle"
               /\ returned' = Return("async_process_doorbell_event", "False")
    /\ fired' = <<>>
    /\ notified' = FALSE
    /\ UNCHANGED <<data, _last_visitor_id, wsVars, enable_websocket, phase, pollVars,
                   refresh_requested, backend_latest>>
    /\ UNCHANGED <<busVars, engineVars, flowVars, parseVars, displayVars>>

\* variant: an answer without "success" counts as success
ApiProcessDoorbellEvent_DefaultsToSuccess(answer) == answer \in {"accepted", "rejected"}

\* api_client.process_doorbell_event, lines 754-778: True only for an accepted event
ApiProcessDoorbellEvent(answer) == answer = "accepted"

\* the backend request completes: lines 859-962, then the service's
\* refresh request and event (__init__.py lines 436-457)
ProcessDoorbellResponse(same_day) ==
    /\ svcPc \in BackendAnswers
    /\ svcPc' = "idle"
    /\ IF ApiProcessDoorbellEvent(svcPc)
          THEN /\ Get(Get(DataOrEmpty(data), "visitor_stats", EmptyDict), "today", 0) < MaxToday
                    \/ ~same_day
               /\ data' = DoorbellEventData(data, same_day)
               /\ notified' = TRUE
               /\ fired' = <<Event("whorang_visitor_detected", ServiceCallVisitor),
                             Event("whorang_doorbell_event", NoVisitor)>>
               /\ refresh_requested' = TRUE
               /\ returned' = Return("async_process_doorbell_event", "True")
          ELSE /\ same_day
               /\ fired' = <<>>
               /\ notified' = FALSE
               /\ returned' = Return("async_process_doorbell_event", "False")
               /\ UNCHANGED <<data, refresh_requested>>
    /\ UNCHANGED <<_last_visitor_id, wsVars, enable_websocket, phase, pollVars, backend_latest>>
    /\ UNCHANGED <<busVars, engineVars, flowVars, parseVars, displayVars>>

\* the new_visitor broadcast of the backend for visitor v is received and handled
NewVisitorPush(v) ==
    /\ v \in ws_pending
    /\ WsMessage(Msg("json", "new_visitor", v, TRUE))

\* get_unknown_faces_service: get_unassigned_faces returns [] when the request fails
GetUnknownFacesService(faces_found) ==
    /\ phase = "running"
    /\ data' = Merge(DataOrEmpty(data), [unknown_faces |-> IF faces_found THEN "faces" ELSE "[]"])
    /\ notified' = TRUE
    /\ fired' = IF faces_found THEN <<Event("whorang_unknown_face_detected", NoVisitor)>> ELSE <<>>
    /\ returned' = Return("get_unknown_faces_service", "None")
    /\ UNCHANGED <<_last_visitor_id, wsVars, enable_websocket, phase, pollVars,
                   refresh_requested, backend_latest, svcPc>>
    /\ UNCHANGED <<busVars, engineVars, flowVars, parseVars, displayVars>>

\* get_face_similarities_service: needs a face_id; the list of similarities
\* (empty when the request fails) is stored with the face_id
GetFaceSimilaritiesService(has_face_id) ==
    /\ phase = "running"
    /\ IF has_face_id
          THEN /\ data' = Merge(DataOrEmpty(data), [face_similarities |-> "similarities"])
               /\ notified' = TRUE
          ELSE /\ notified' = FALSE
               /\ UNCHANGED data
    /\ fired' = <<>>
    /\ returned' = Return("get_face_similarities_service", "None")
    /\ UNCHANGED <<_last_visitor_id, wsVars, enable_websocket, phase, pollVars,
                   refresh_requested, backend_latest, svcPc>>
    /\ UNCHANGED <<busVars, engineVars, flowVars, parseVars, displayVars>>

\* async_is_websocket_connected, lines 770-775
async_is_websocket_connected(d) ==
    IF Truthy(d) THEN Get(d, "websocket_connected", FALSE) ELSE FALSE

\* an entity reads the property
EntityRead ==
    /\ phase = "running"
    /\ returned' = Return("async_is_websocket_connected",
                          IF async_is_websocket_connected(data) THEN "True" ELSE "False")
    /\ fired' = <<>>
    /\ notified' = FALSE
    /\ UNCHANGED <<data, _last_visitor_id, wsVars, enable_websocket, phase, pollVars,
                   refresh_requested, backend_latest, svcPc>>
    /\ UNCHANGED <<busVars, engineVars, flowVars, parseVars, displayVars>>

(***************************************************************************)
(* IntelligentAutomationEngine and the services that drive it              *)
(***************************************************************************)
MonitorModes == {"state_change", "webhook"}

\* automation_config of setup_camera_automation_service, lines 1010-1022
AutomationConfig(monitor_mode, enable_notifications, enable_media) ==
    [enable_intelligent_automation |-> TRUE,
     camera_monitor_mode |-> monitor_mode,
     enable_notifications |-> enable_notifications,
     enable_media |-> enable_media]

\* setup_camera_automation_service with a camera_entity: creates the engine
\* or updates the configuration of the existing one
SetupCameraAutomation(monitor_mode, enable_notifications, enable_media) ==
    /\ phase = "running"
    /\ config' = AutomationConfig(monitor_mode, enable_notifications, enable_media)
    /\ fired' = <<>>
    /\ notified' = FALSE
    /\ returned' = Return("setup_camera_automation_service", "success")
    /\ UNCHANGED <<_is_running, _camera_monitor, listeners, lifecycle, pipeline>>
    /\ UNCHANGED <<coordinatorVars, flowVars, parseVars, displayVars>>

\* variant: async_start does not look at _is_running
AlreadyRunning_Ignored == FALSE

\* async_start, line 58
AlreadyRunning == _is_running

\* start_monitoring registers one listener in state_change mode, none in webhook mode
Subscribed(monitor_mode) == IF monitor_mode = "state_change" THEN 1 ELSE 0

\* start_intelligent_monitoring_service -> async_start, lines 56-83; nothing
\* inside it suspends
AsyncStart ==
    /\ phase = "running"
    /\ config # None
    /\ IF AlreadyRunning
          THEN /\ fired' = <<>>
               /\ returned' = Return("async_start", "False")
               /\ UNCHANGED <<_is_running, _camera_monitor, listeners, lifecycle>>
          ELSE /\ _camera_monitor < MaxStarts
               /\ _camera_monitor' = _camera_monitor + 1
               /\ listeners' = IF config.enable_intelligent_automation
                                  THEN listeners + Subscribed(config.camera_monitor_mode)
                                  ELSE listeners
               /\ _is_running' = TRUE
               /\ fired' = <<Event("whorang_automation_started", NoVisitor)>>
               /\ lifecycle' = "started"
               /\ returned' = Return("async_start", "True")
    /\ notified' = FALSE
    /\ UNCHANGED <<config, pipeline>>
    /\ UNCHANGED <<coordinatorVars, flowVars, parseVars, displayVars>>

\* stop_intelligent_monitoring_service -> async_stop, lines 85-111; the
\* host's unsubscribe callable may raise, which the except clause catches
AsyncStop(unsubscribe_raises) ==
    /\ phase = "running"
    /\ config # None
    /\ IF ~_is_running
          THEN /\ ~unsubscribe_raises
               /\ fired' = <<>>
               /\ returned' = Return("async_stop", "True")
               /\ UNCHANGED <<_is_running, listeners, lifecycle>>
          ELSE IF unsubscribe_raises
                  THEN /\ listeners > 0
                       /\ fired' = <<>>
                       /\ returned' = Return("async_stop", "False")
                       /\ UNCHANGED <<_is_running, listeners, lifecycle>>
                  ELSE /\ listeners' = IF listeners > 0 THEN listeners - 1 ELSE 0
                       /\ _is_running' = FALSE
                       /\ fired' = <<Event("whorang_automation_stopped", NoVisitor)>>
                       /\ lifecycle' = "stopped"
                       /\ returned' = Return("async_stop", "True")
    /\ notified' = FALSE
    /\ UNCHANGED <<config, _camera_monitor, pipeline>>
    /\ UNCHANGED <<coordinatorVars, flowVars, parseVars, displayVars>>

\* the public methods WhoRangAPIClient defines
ApiClientMethods ==
    {"close", "get_health", "get_visitors", "get_latest_visitor", "get_visitor_by_id",
     "get_stats", "get_detected_objects", "get_webhook_config", "test_webhook",
     "get_face_config", "update_face_config", "get_known_persons", "create_person",
     "delete_person", "get_detected_faces", "get_ai_providers", "set_ai_provider",
     "set_ai_provider_with_key", "get_available_providers", "trigger_analysis",
     "get_latest_image", "get_ai_usage_stats", "export_visitor_data",
     "validate_connection", "get_available_models", "set_ai_model", "get_current_ai_model",
     "get_provider_models", "get_ollama_models", "get_ollama_status", "set_ollama_config",
     "get_system_info", "process_doorbell_event", "get_unassigned_faces",
     "assign_face_to_person", "label_face_with_name", "create_person_from_face",
     "get_face_similarities", "delete_face", "get_face_stats", "bulk_assign_faces",
     "get_person_faces", "get_face_image_url", "get_face_gallery_data", "get_face_gallery",
     "get_face_suggestions", "label_face", "batch_label_faces", "delete_face_by_id",
     "refresh_face_gallery"}

\* variant: the analysis step returns a result whatever the backend answers
PerformAiAnalysis_IgnoresFailure(backend_ok) == "ai_result"

\* _perform_ai_analysis, lines 282-339: looking up a method the client does
\* not define raises AttributeError, which the except clause turns into None
PerformAiAnalysis(backend_ok) ==
    IF "trigger_intelligent_analysis" \in ApiClientMethods /\ backend_ok
       THEN "ai_result"
       ELSE "None"

\* a state change of the camera reaches the registered listener, which
\* schedules _handle_camera_event: lines 161-177, up to the snapshot call
CameraEvent(snapshot_ok, backend_ok) ==
    /\ listeners > 0
    /\ pipeline.pc # "snapshot"
    /\ pipeline' = Pipeline("snapshot", snapshot_ok, backend_ok)
    /\ fired' = <<Event("whorang_doorbell_detected", NoVisitor)>>
    /\ notified' = FALSE
    /\ returned' = NoReturn
    /\ UNCHANGED <<config, _is_running, _camera_monitor, listeners, lifecycle>>
    /\ UNCHANGED <<coordinatorVars, flowVars, parseVars, displayVars>>

\* step 4 of the pipeline, lines 206-236: the events of the tasks that ran
\* and the service call that forwards the event
FanOut(cfg) ==
    <<Event("whorang_intelligent_analysis_complete", NoVisitor)>>
    \o (IF cfg.enable_notifications THEN <<Event("whorang_notification_sent", NoVisitor)>> ELSE <<>>)
    \o (IF cfg.enable_media THEN <<Event("whorang_media_playback_complete", NoVisitor)>> ELSE <<>>)
    \o <<Event("call_service:whorang.process_doorbell_event", NoVisitor)>>

\* camera.snapshot returns or raises; the rest of the pipeline runs without
\* suspending up to the backend request: lines 178-241
SnapshotDone ==
    /\ pipeline.pc = "snapshot"
    /\ IF ~pipeline.snapshot_ok
          THEN /\ pipeline' = [pipeline EXCEPT !.pc = "no_snapshot"]
               /\ fired' = <<>>
          ELSE IF PerformAiAnalysis(pipeline.backend_ok) = "None"
                  THEN /\ pipeline' = [pipeline EXCEPT !.pc = "no_analysis"]
                       /\ fired' = <<Event("whorang_camera_snapshot_captured", NoVisitor)>>
                  ELSE /\ pipeline' = [pipeline EXCEPT !.pc = "fanned_out"]
                       /\ fired' = <<Event("whorang_camera_snapshot_captured", NoVisitor)>>
                                   \o FanOut(config)
    /\ notified' = FALSE
    /\ returned' = Return("_handle_camera_event", "None")
    /\ UNCHANGED <<config, _is_running, _camera_monitor, listeners, lifecycle>>
    /\ UNCHANGED <<coordinatorVars, flowVars, parseVars, displayVars>>

(***************************************************************************)
(* play_doorbell_sequence_service -> MediaIntegrationService               *)
(***************************************************************************)
\* the lists of distinct entity_ids a call may name as display_players
DisplayPlayerLists ==
    {l \in UNION {[1..n -> Players] : n \in 0..MaxPlayers} :
        \A i, j \in DOMAIN l : i # j => l[i] # l[j]}

\* display_duration: off, and the default of the service
DisplayDurations == {0, 15}

\* the service is called with a snapshot to display; one call at a time, the
\* next one after the stops of the previous one have run
PlayDoorbellSequenceService(players, duration) ==
    /\ displayPc = 0 /\ stop_tasks = 0
    /\ players \in DisplayPlayerLists /\ duration \in DisplayDurations
    /\ display_players' = players
    /\ display_duration' = duration
    /\ displayPc' = 1
    /\ player' = "unbound"
    /\ played' = {}
    /\ stopped' = [p \in Players |-> 0]
    /\ Quiet
    /\ UNCHANGED stop_tasks
    /\ UNCHANGED <<coordinatorVars, engineVars, flowVars, parseVars>>

\* the entity_id stop_display addresses: it reads the variable player of the
\* enclosing _display_snapshot when its sleep is over
StopTarget == player

\* one iteration of the for loop, lines 704-735: play_media is sent to the
\* player, and a stop_display task is created when display_duration > 0;
\* a call that raises is logged and the loop goes on
DisplayPlayer(raises) ==
    /\ displayPc \in 1..Len(display_players)
    /\ player' = display_players[displayPc]
    /\ IF raises
          THEN UNCHANGED <<played, stop_tasks>>
          ELSE /\ played' = played \cup {player'}
               /\ stop_tasks' = IF display_duration > 0 THEN stop_tasks + 1 ELSE stop_tasks
    /\ displayPc' = displayPc + 1
    /\ Quiet
    /\ UNCHANGED <<display_players, display_duration, stopped>>
    /\ UNCHANGED <<coordinatorVars, engineVars, flowVars, parseVars>>

\* the for loop is exhausted: _display_snapshot and the service return
DisplaySnapshotReturn ==
    /\ displayPc = Len(display_players) + 1
    /\ displayPc' = 0
    /\ fired' = <<>>
    /\ notified' = FALSE
    /\ returned' = Return("play_doorbell_sequence_service", "success")
    /\ UNCHANGED <<display_players, display_duration, player, stop_tasks, played, stopped>>
    /\ UNCHANGED <<coordinatorVars, engineVars, flowVars, parseVars>>

\* the sleep of a stop_display task is over: lines 720-731
StopDisplay ==
    /\ stop_tasks > 0
    /\ stop_tasks' = stop_tasks - 1
    /\ stopped' = [stopped EXCEPT ![StopTarget] = @ + 1]
    /\ Quiet
    /\ UNCHANGED <<display_players, display_duration, displayPc, player, played>>
    /\ UNCHANGED <<coordinatorVars, engineVars, flowVars, parseVars>>

(***************************************************************************)
(* ConfigFlow: async_step_user and async_step_ai_providers                 *)
(***************************************************************************)
\* host:port of the systems a user may submit
UniqueIds == {"doorbell.local:443", "10.0.0.1:3001"}

\* validate_input: returns, or raises InvalidURL (parse_whorang_url raised
\* ValueError) or CannotConnect (validate_connection false, or any other
\* exception); validate_connection swallows a 401, so InvalidAuth is not raised
ValidateOutcomes == {"ok", "invalid_url", "cannot_connect"}

\* async_step_user, lines 190-198: the error code of an outcome
UserStepError(outcome) == outcome

\* the fields of the ai_providers form that are modelled
Providers == {"openai_api_key", "claude_api_key"}

\* what a field may hold: nothing, only blanks, a key
FieldValues == {"", " ", "key"}

\* async_step_ai_providers, lines 223-226: the keys kept for testing
ApiKeys(user_input) == {p \in Providers : user_input[p] = "key"}

\* variant: the result of _test_api_keys is not looked at
KeysAccepted_Untested(api_keys, valid) == TRUE

\* line 229: no key was given, or _test_api_keys found every key valid
KeysAccepted(api_keys, valid) == api_keys = {} \/ api_keys \subseteq valid

\* lines 207-210: what async_step_user keeps for the next step
ConfigData(unique_id) == [title |-> unique_id, parsed_data |-> unique_id]

ConfigEntry(unique_id, ai_api_keys) == [unique_id |-> unique_id, ai_api_keys |-> ai_api_keys]

ConfiguredIds == {e.unique_id : e \in entries}

\* the user starts a flow: async_step_user(None) shows the empty form
FlowStart ==
    /\ flowStep \in {"none", "create_entry", "abort"}
    /\ flowStep' = "user"
    /\ flow_errors' = "none"
    /\ _config_data' = None
    /\ submitted' = Submitted("none", "none")
    /\ returned' = Return("async_step_user", "form:user")
    /\ fired' = <<>>
    /\ notified' = FALSE
    /\ UNCHANGED entries
    /\ UNCHANGED <<coordinatorVars, engineVars, parseVars, displayVars>>

\* async_step_user(user_input), lines 186-215
UserStep(unique_id, outcome) ==
    /\ flowStep = "user"
    /\ unique_id \in UniqueIds /\ outcome \in ValidateOutcomes
    /\ submitted' = Submitted(outcome, "none")
    /\ IF outcome # "ok"
          THEN /\ flow_errors' = UserStepError(outcome)
               /\ flowStep' = "user"
               /\ returned' = Return("async_step_user", "form:user")
               /\ UNCHANGED _config_data
          ELSE IF unique_id \in ConfiguredIds
                  THEN /\ flow_errors' = "already_configured"
                       /\ flowStep' = "abort"
                       /\ returned' = Return("async_step_user", "abort")
                       /\ UNCHANGED _config_data
                  ELSE /\ _config_data' = ConfigData(unique_id)
                       /\ flow_errors' = "none"
                       /\ flowStep' = "ai_providers"
                       /\ returned' = Return("async_step_user", "form:ai_providers")
    /\ fired' = <<>>
    /\ notified' = FALSE
    /\ UNCHANGED entries
    /\ UNCHANGED <<coordinatorVars, engineVars, parseVars, displayVars>>

\* async_step_ai_providers(user_input), lines 221-256; valid: the providers
\* whose key passes its test
AiProvidersStep(user_input, valid) ==
    /\ flowStep = "ai_providers"
    /\ user_input \in [Providers -> FieldValues] /\ valid \subseteq ApiKeys(user_input)
    /\ LET api_keys == ApiKeys(user_input)
           tested == IF api_keys = {} THEN "none"
                     ELSE IF api_keys \subseteq valid THEN "passed" ELSE "failed"
       IN  /\ submitted' = Submitted("none", tested)
           /\ IF KeysAccepted(api_keys, valid)
                 THEN /\ entries' = entries \cup {ConfigEntry(_config_data.parsed_data, api_keys)}
                      /\ flowStep' = "create_entry"
                      /\ flow_errors' = "none"
                      /\ returned' = Return("async_step_ai_providers", "create_entry")
                 ELSE /\ flow_errors' = "invalid_api_keys"
                      /\ flowStep' = "ai_providers"
                      /\ returned' = Return("async_step_ai_providers", "form:ai_providers")
                      /\ UNCHANGED entries
    /\ fired' = <<>>
    /\ notified' = FALSE
    /\ UNCHANGED _config_data
    /\ UNCHANGED <<coordinatorVars, engineVars, parseVars, displayVars>>

(***************************************************************************)
(* parse_whorang_url, on strings cut into tokens                           *)
(***************************************************************************)
DEFAULT_PORT == 3001

Schemes == {"http://", "https://"}

\* runs of letters, digits and dots: a hostname in lower and in upper case,
\* a hexadecimal group, two numbers, an IPv4 address
Runs == {"nas", "NAS", "fe80", "80", "443", "10.0.0.1"}

Digits == {"80", "443"}
HexGroups == {"fe80", "80", "443"}

Tokens == Schemes \cup Runs \cup {":", " ", "/x"}

\* the strings: a scheme only in front (after blanks), and no two runs side
\* by side (they would be one run)
UrlInputs ==
    {u \in UNION {[1..n -> Tokens] : n \in 0..MaxUrlLen} :
        /\ \A i \in 1..Len(u) : u[i] \in Schemes => \A j \in 1..(i - 1) : u[j] = " "
        /\ \A i \in 1..(Len(u) - 1) : ~(u[i] \in Runs /\ u[i + 1] \in Runs)}

\* str.strip()
Strip(u) ==
    LET kept == {i \in 1..Len(u) : u[i] # " "}
    IN  IF kept = {} THEN <<>>
        ELSE SubSeq(u, CHOOSE i \in kept : \A j \in kept : i <= j,
                       CHOOSE i \in kept : \A j \in kept : j <= i)

\* index of the first token of a set in u, 0 when there is none
Find(u, set) ==
    LET at == {i \in 1..Len(u) : u[i] \in set}
    IN  IF at = {} THEN 0 ELSE CHOOSE i \in at : \A j \in at : i <= j

\* str.partition(sep): what stands before and after the first separator
Before(u, set) == IF Find(u, set) = 0 THEN u ELSE SubSeq(u, 1, Find(u, set) - 1)
After(u, set) == IF Find(u, set) = 0 THEN <<>> ELSE SubSeq(u, Find(u, set) + 1, Len(u))

\* str.lower()
Lower(u) == [i \in 1..Len(u) |-> IF u[i] = "NAS" THEN "nas" ELSE u[i]]

\* int() of a run of digits
NumValue(t) == IF t = "443" THEN 443 ELSE 80

ValueError == [kind |-> "ValueError"]
Parsed(host, port, use_ssl) == [kind |-> "ok", host |-> host, port |-> port, use_ssl |-> use_ssl]

\* lines 55-68: urlparse cuts the netloc at the path, the hostname at the
\* first colon, lower-cases it, and raises ValueError for a port that is not
\* a run of digits
ParseFullUrl(u) ==
    LET use_ssl == u[1] = "https://"
        netloc == Before(Tail(u), {"/x"})
        hostname == Lower(Before(netloc, {":"}))
        port == After(netloc, {":"})
    IN  IF port # <<>> /\ ~(Len(port) = 1 /\ port[1] \in Digits) THEN ValueError
        ELSE IF hostname = <<>> THEN ValueError
        ELSE Parsed(hostname,
                    IF port = <<>> THEN (IF use_ssl THEN 443 ELSE 80) ELSE NumValue(port[1]),
                    use_ssl)

\* lines 71-81: split at the first colon; int() ignores blanks around the digits
ParseHostPort(u) ==
    LET host == Before(u, {":"})
        port_str == Strip(After(u, {":"}))
    IN  IF host = <<>> THEN ValueError
        ELSE IF ~(Len(port_str) = 1 /\ port_str[1] \in Digits) THEN ValueError
        ELSE Parsed(host, NumValue(port_str[1]), NumValue(port_str[1]) = 443)

\* ipaddress.ip_address accepts the string: an IPv4 address, or groups
\* separated by colons with one "::" (or eight groups), ending in a group or
\* in an IPv4 address
IsIPv6(u) ==
    LET doubles == {i \in 1..(Len(u) - 1) : u[i] = ":" /\ u[i + 1] = ":"}
        groups == {i \in 1..Len(u) : u[i] # ":"}
    IN  /\ Len(u) >= 2
        /\ \A i \in 1..Len(u) : \/ u[i] \in HexGroups \cup {":"}
                                \/ (i = Len(u) /\ u[i] = "10.0.0.1" /\ u[i - 1] = ":")
        /\ \/ Cardinality(doubles) = 1 /\ Cardinality(groups) <= 7
           \/ Cardinality(doubles) = 0 /\ Cardinality(groups) = 8
        /\ u[1] = ":" => u[2] = ":"
        /\ u[Len(u)] = ":" => u[Len(u) - 1] = ":"

IsIpAddress(u) == u = <<"10.0.0.1">> \/ IsIPv6(u)

\* lines 84-94: an IP address, or else a hostname
ParseBare(u) ==
    IF IsIpAddress(u) THEN Parsed(u, DEFAULT_PORT, FALSE) ELSE Parsed(u, 443, TRUE)

\* parse_whorang_url, lines 45-94
parse_whorang_url(input) ==
    LET u == Strip(input)
    IN  IF u = <<>> THEN ValueError
        ELSE IF u[1] \in Schemes THEN ParseFullUrl(u)
        ELSE IF Find(u, {":"}) # 0 THEN ParseHostPort(u)
        ELSE ParseBare(u)

\* the function is about to be called on a string, in the flow of an
\* integration that is not set up yet
InitParse ==
    /\ Constructed
    /\ data = None /\ enable_websocket /\ backend_latest = 0
    /\ url_input \in UrlInputs
    /\ parsed = NotParsed

ParseUrl ==
    /\ parsed = NotParsed
    /\ parsed' = parse_whorang_url(url_input)
    /\ UNCHANGED url_input
    /\ UNCHANGED <<coordinatorVars, engineVars, flowVars, displayVars, fired, notified, returned>>

(***************************************************************************)
(* Specifications                                                          *)
(***************************************************************************)
\* the WebSocket handler, the config-entry lifecycle, polls and entity reads
NextWs ==
    \/ AsyncSetup
    \/ WsConnectOk
    \/ \E err \in ConnectErrors : WsConnectFail(err)
    \/ \E err \in LossErrors : WsConnectionLost(err)
    \/ WsLoopEnd
    \/ WsSleepDone
    \/ StopWebsocketCancel
    \/ WsCancelled
    \/ StopWebsocketFinish
    \/ PollStart
    \/ PollSucceed
    \/ \E point \in PollFailPoints : PollFail(point)
    \/ EntityRead

SpecWs == Init /\ [][NextWs]_vars

\* WebSocket pushes of every format and type, and polls, over a connection
\* that is established at the first attempt
NextPush ==
    \/ AsyncSetup
    \/ WsConnectOk
    \/ \E err \in LossErrors : WsConnectionLost(err)
    \/ WsSleepDone
    \/ PollStart
    \/ PollSucceed
    \/ \E point \in PollFailPoints : PollFail(point)
    \/ \E m \in WsMessages : WsMessage(m)

SpecPush == Init /\ [][NextPush]_vars

\* the pushes seen next to the service calls: a cleared database and started analyses
ServiceSpecMessages == {m \in WsMessages : m.fmt = "json" /\ m.data_is_dict
                                           /\ m.type \in {"database_cleared", "analysis_started"}}

\* visitors ring, the backend stores them and broadcasts each once over the
\* connection; polls, the pushes and process_doorbell_event calls interleave
NextVisitors ==
    \/ AsyncSetup
    \/ WsConnectOk
    \/ BackendNewVisitor
    \/ PollStart
    \/ PollSucceed
    \/ \E point \in PollFailPoints : PollFail(point)
    \/ \E v \in 1..MaxVisitor : NewVisitorPush(v)
    \/ \E has_image_url \in BOOLEAN : ProcessDoorbellCall(has_image_url)
    \/ \E same_day \in BOOLEAN : ProcessDoorbellResponse(same_day)

SpecVisitors == Init /\ [][NextVisitors]_vars

\* the service calls, entity reads, polls and pushes, over a connection that
\* is established at the first attempt and stays
Next ==
    \/ AsyncSetup
    \/ WsConnectOk
    \/ PollStart
    \/ PollSucceed
    \/ \E point \in PollFailPoints : PollFail(point)
    \/ \E m \in ServiceSpecMessages : WsMessage(m)
    \/ \E has_image_url \in BOOLEAN : ProcessDoorbellCall(has_image_url)
    \/ \E same_day \in BOOLEAN : ProcessDoorbellResponse(same_day)
    \/ \E faces_found \in BOOLEAN : GetUnknownFacesService(faces_found)
    \/ \E has_face_id \in BOOLEAN : GetFaceSimilaritiesService(has_face_id)
    \/ EntityRead

Spec == Init /\ [][Next]_vars

\* the engine, driven by its three services and by camera events, on a
\* coordinator that polls
NextEngine ==
    \/ PollStart
    \/ PollSucceed
    \/ AsyncSetup
    \/ \E monitor_mode \in MonitorModes, enable_notifications, enable_media \in BOOLEAN :
          SetupCameraAutomation(monitor_mode, enable_notifications, enable_media)
    \/ AsyncStart
    \/ \E unsubscribe_raises \in BOOLEAN : AsyncStop(unsubscribe_raises)
    \/ \E snapshot_ok, backend_ok \in BOOLEAN : CameraEvent(snapshot_ok, backend_ok)
    \/ SnapshotDone

SpecEngine == Init /\ [][NextEngine]_vars

\* the camera.snapshot call of a pipeline returns or raises
LiveSpecEngine == SpecEngine /\ WF_vars(SnapshotDone)

\* config flows started by the user, one at a time
NextFlow ==
    \/ FlowStart
    \/ \E unique_id \in UniqueIds, outcome \in ValidateOutcomes : UserStep(unique_id, outcome)
    \/ \E user_input \in [Providers -> FieldValues], valid \in SUBSET Providers :
          AiProvidersStep(user_input, valid)

SpecFlow == Init /\ [][NextFlow]_vars

\* calls of the play_doorbell_sequence service that display a snapshot
NextDisplay ==
    \/ \E players \in DisplayPlayerLists, duration \in DisplayDurations :
          PlayDoorbellSequenceService(players, duration)
    \/ \E raises \in BOOLEAN : DisplayPlayer(raises)
    \/ DisplaySnapshotReturn
    \/ StopDisplay

SpecDisplay == Init /\ [][NextDisplay]_vars

\* the event loop runs the coroutine of the service and wakes the sleeping tasks
LiveSpecDisplay ==
    /\ SpecDisplay
    /\ WF_vars(\E raises \in BOOLEAN : DisplayPlayer(raises))
    /\ WF_vars(DisplaySnapshotReturn)
    /\ WF_vars(StopDisplay)

\* parse_whorang_url applied to every string
NextParse == ParseUrl

SpecParse == InitParse /\ [][NextParse]_vars

\* the handler's timers fire and a cancelled task is resumed
LiveSpecWs == SpecWs /\ WF_vars(WsSleepDone) /\ WF_vars(WsCancelled)

(***************************************************************************)
(* Properties of the WebSocket handler                                     *)
(***************************************************************************)
HandlerCancelled == phase \in {"stopping", "shutdown"}

\* C2: while the handler task is not cancelled it is always inside its loop
\* (connecting, listening or sleeping before a retry), and every state in
\* which the task holds no open connection leads to a connection attempt
\* (or to the task's cancellation).
C2_AutoReconnect ==
    /\ []((_websocket_task = "task" /\ ~HandlerCancelled) => wsPc \in {"connect", "listen", "sleep"})
    /\ ((_websocket_task = "task" /\ _websocket # "open") ~> (wsPc = "connect" \/ HandlerCancelled))

\* a retry after a failure: the handler connects again with a doubled delay
C2_Witness == phase = "running" /\ wsPc = "connect" /\ reconnect_delay = 4

BackoffDelays == {1, 2, 4, 8, 16, 32, 60}

\* C3: reconnect_delay is always one of 1, 2, 4, 8, 16, 32, 60; the sleep
\* after the loss of an established connection uses 1; the end of a sleep
\* doubles the delay capped at 60 and a successful connection resets it to 1.
C3_Backoff ==
    /\ [](reconnect_delay \in BackoffDelays)
    /\ []((wsPc = "sleep" /\ established) => reconnect_delay = 1)
    /\ [][/\ (wsPc = "sleep" /\ wsPc' = "connect")
               => reconnect_delay' = (IF reconnect_delay * 2 > 60 THEN 60 ELSE reconnect_delay * 2)
          /\ (wsPc = "connect" /\ wsPc' = "listen") => reconnect_delay' = 1
          /\ (wsPc = "connect" /\ wsPc' = "sleep") => reconnect_delay' = reconnect_delay]_vars

\* the handler sleeps with the capped delay
C3_Witness == wsPc = "sleep" /\ reconnect_delay = 60

\* C7: once _stop_websocket has completed, the coordinator holds neither
\* the handler task nor a connection, the handler is not connecting,
\* listening or sleeping, and nothing of the handler changes any more.
C7_Stopped ==
    /\ [](phase = "shutdown" =>
            /\ _websocket_task = "None" /\ _websocket = "None"
            /\ wsPc \in {"none", "cancelled"})
    /\ [][phase = "shutdown" => UNCHANGED <<wsVars, phase>>]_vars

\* a handler that had been started has been stopped
C7_Witness == phase = "shutdown" /\ wsPc = "cancelled"

\* C8: async_is_websocket_connected() is true exactly when the coordinator
\* holds an open connection.
C8_ConnectedIffOpen == async_is_websocket_connected(data) = (_websocket = "open")

(***************************************************************************)
(* Properties of the cached dictionary                                     *)
(***************************************************************************)
\* the call a step completes, when it changes the dictionary
PollOrPush == {"_async_update_data", "_handle_websocket_message"}
WritingServices == {"async_process_doorbell_event", "get_unknown_faces_service",
                    "get_face_similarities_service"}

\* C4 as stated: coordinator.data changes only when a poll completes or a
\* WebSocket push is handled.
C4_OnlyPollOrPush == [][data' # data => returned'.call \in PollOrPush]_vars

\* C4 amended: coordinator.data changes only when a poll completes, a
\* WebSocket push is handled, or one of the writing service calls completes
\* (process_doorbell_event accepted by the backend, get_unknown_faces,
\* get_face_similarities with a face_id).
C4_OnlyPollPushOrService ==
    [][data' # data =>
          /\ returned'.call \in PollOrPush \cup WritingServices
          /\ returned'.call = "async_process_doorbell_event" => returned'.value = "True"]_vars

\* a service call has just written the unknown faces into the dictionary
C4_Witness ==
    /\ returned = Return("get_unknown_faces_service", "None")
    /\ Truthy(data) /\ "unknown_faces" \in DOMAIN data /\ data["unknown_faces"] = "faces"

AnalysisPushStatus ==
    [whorang_analysis_started |-> "started",
     whorang_analysis_complete |-> "completed",
     whorang_analysis_error |-> "error"]

\* the keys the handler of the push writes
AnalysisPushWrites(event_type) ==
    {"analysis_status", "ai_processing"}
        \cup (IF event_type = "whorang_analysis_complete" THEN {"latest_visitor"} ELSE {})

\* the step handled an analysis_started / analysis_complete / analysis_error push
AnalysisPushHandled(f) == Len(f) = 1 /\ f[1].type \in DOMAIN AnalysisPushStatus

C6_PollNeverFailsOutward ==
    [][(pollPc = "fetched" /\ pollPc' = "idle" /\ returned'.value # "updated_data") =>
          /\ returned' = Return("_async_update_data", IF Truthy(data) THEN "self.data" ELSE "minimal")
          /\ data' = (IF Truthy(data) THEN data ELSE MinimalData)
          /\ DOMAIN MinimalData = {"latest_visitor", "latest_image", "doorbell_state",
                                   "visitor_stats", "system_info", "last_service_call"}]_vars

\* a failed poll returned a dictionary that holds what a service call and an
\* earlier poll had written
C6_Witness ==
    /\ returned = Return("_async_update_data", "self.data")
    /\ {"unknown_faces", "known_persons"} \subseteq DOMAIN data

\* C10: async_process_doorbell_event without an image_url returns False
\* without calling the backend; when the backend rejects the event or the
\* request fails it returns False; whenever it returns False,
\* coordinator.data is unchanged, no entity is notified and no event is fired.
C10_FailsCleanly ==
    [][/\ (svcPc = "idle" /\ returned'.call = "async_process_doorbell_event")
             => (returned'.value = "False" /\ svcPc' = "idle")
       /\ (svcPc \in {"rejected", "request_failed"} /\ svcPc' = "idle")
             => returned' = Return("async_process_doorbell_event", "False")
       /\ returned' = Return("async_process_doorbell_event", "False")
             => (data' = data /\ notified' = FALSE /\ fired' = <<>>)]_vars

\* a doorbell event failed after an earlier one had been counted
C10_Witness ==
    /\ returned = Return("async_process_doorbell_event", "False")
    /\ refresh_requested
    /\ Truthy(data) /\ "today" \in DOMAIN data["visitor_stats"]
    /\ data["visitor_stats"].today = 1

(***************************************************************************)
(* Properties of the automation engine                                     *)
(***************************************************************************)
\* C1: a pipeline whose snapshot call and backend calls are answered
\* successfully eventually reaches its fan-out step.
C1_PipelineReachesFanOut ==
    (pipeline.pc = "snapshot" /\ pipeline.snapshot_ok /\ pipeline.backend_ok)
        ~> (pipeline.pc = "fanned_out")

\* a step put this lifecycle event on the bus
Fires(f, type) == \E i \in 1..Len(f) : f[i].type = type

\* C9: is_running becomes true only through an async_start that returns True
\* and false only through an async_stop that returns True; async_start on a
\* running engine returns False, creates no services, registers no listener
\* and fires nothing; async_stop on a stopped engine returns True and fires
\* nothing; automation_started is never fired after automation_started and
\* automation_stopped only after automation_started.
C9_EngineLifecycle ==
    [][/\ (~_is_running /\ _is_running') => returned' = Return("async_start", "True")
       /\ (_is_running /\ ~_is_running') => returned' = Return("async_stop", "True")
       /\ (_is_running /\ returned'.call = "async_start")
             => /\ returned'.value = "False"
                /\ _camera_monitor' = _camera_monitor /\ listeners' = listeners
                /\ fired' = <<>>
       /\ (~_is_running /\ returned'.call = "async_stop")
             => (returned'.value = "True" /\ fired' = <<>>)
       /\ Fires(fired', "whorang_automation_started") => lifecycle # "started"
       /\ Fires(fired', "whorang_automation_stopped") => lifecycle = "started"]_vars

\* async_start was refused on an engine that had been stopped and started again
C9_Witness ==
    /\ returned = Return("async_start", "False")
    /\ _is_running /\ _camera_monitor = 2 /\ lifecycle = "started"

(***************************************************************************)
(* Properties of the config flow                                           *)
(***************************************************************************)
\* the ai_api_keys of the entry a step created
ApiKeys_Created(before, after) ==
    IF after \ before = {} THEN {} ELSE (CHOOSE e \in after \ before : TRUE).ai_api_keys

\* C11: a config entry is created only by a step that follows a successful
\* validate_input of this flow and in which every key given passed its test
\* (or none was given); a validation error of either step shows the same
\* form again with an error code and creates no entry; a host:port that is
\* already configured aborts the flow in async_step_user, before the
\* ai_providers form, and no second entry for it is ever created.
C11_ConfigFlow ==
    /\ [][entries' # entries =>
            /\ flowStep = "ai_providers" /\ flowStep' = "create_entry"
            /\ _config_data # None /\ _config_data.parsed_data \notin ConfiguredIds
            /\ entries' = entries \cup {ConfigEntry(_config_data.parsed_data,
                                                    ApiKeys_Created(entries, entries'))}
            /\ submitted'.keys \in {"none", "passed"}]_vars
    /\ [][(submitted'.validated \in {"invalid_url", "cannot_connect"})
             => /\ flowStep' = "user" /\ flow_errors' = submitted'.validated
                /\ entries' = entries /\ _config_data' = None]_vars
    /\ [][(submitted'.keys = "failed")
             => /\ flowStep' = "ai_providers" /\ flow_errors' = "invalid_api_keys"
                /\ entries' = entries]_vars
    /\ [][(flowStep = "user" /\ flowStep' = "ai_providers")
             => /\ submitted'.validated = "ok"
                /\ _config_data' # None
                /\ _config_data'.parsed_data \in UniqueIds \ ConfiguredIds]_vars
    /\ [][(flowStep' = "abort")
             => /\ flowStep = "user" /\ submitted'.validated = "ok"
                /\ _config_data' = None /\ entries' = entries]_vars
    /\ [](\A e1, e2 \in entries : e1.unique_id = e2.unique_id => e1 = e2)

\* a second system was configured by a flow whose only key passed its test
C11_Witness ==
    /\ flowStep = "create_entry" /\ submitted.keys = "passed"
    /\ \E e \in entries : e.ai_api_keys = {"claude_api_key"}
    /\ Cardinality(entries) = 2

(***************************************************************************)
(* Properties of parse_whorang_url                                         *)
(***************************************************************************)
\* a full URL of the form http(s)://host[:port]
WellFormedUrl(u) ==
    /\ u # <<>> /\ u[1] \in Schemes
    /\ LET rest == Tail(u)
       IN  \/ Len(rest) = 1 /\ rest[1] \in Runs
           \/ Len(rest) = 3 /\ rest[1] \in Runs /\ rest[2] = ":" /\ rest[3] \in Digits

\* what the statement of C12 asks for the stripped string u
Expected(u) ==
    IF u = <<>> THEN {ValueError}
    ELSE IF WellFormedUrl(u)
       THEN {Parsed(Lower(<<u[2]>>),
                    IF Len(u) = 4 THEN NumValue(u[4]) ELSE (IF u[1] = "https://" THEN 443 ELSE 80),
                    u[1] = "https://")}
    ELSE IF u[1] \in Schemes THEN {ValueError} \cup {Parsed(h, p, b) : h \in {Lower(Before(Tail(u), {":", "/x"}))},
                                                                      p \in {80, 443}, b \in BOOLEAN}
    ELSE IF IsIpAddress(u) THEN {Parsed(u, 3001, FALSE)}
    ELSE IF Find(u, {":"}) # 0
       THEN IF Before(u, {":"}) = <<>> \/ ~(Len(Strip(After(u, {":"}))) = 1
                                           /\ Strip(After(u, {":"}))[1] \in Digits)
               THEN {ValueError}
               ELSE {Parsed(Before(u, {":"}), NumValue(Strip(After(u, {":"}))[1]),
                            Strip(After(u, {":"}))[1] = "443")}
    ELSE {Parsed(u, 443, TRUE)}

\* C12: parse_whorang_url raises ValueError for a blank input; for
\* http(s)://host[:port] it gives use_ssl exactly for https and the port
\* given or 443/80 by scheme; a bare IP address gives (ip, 3001, false); for
\* host:port it gives use_ssl exactly when the port is 443 and raises
\* ValueError for an empty host or a non-integer port; a bare hostname gives
\* (hostname, 443, true).
C12_ParseWhorangUrl == parsed # NotParsed => parsed \in Expected(Strip(url_input))

(***************************************************************************)
(* Announcements of visitors                                               *)
(***************************************************************************)
\* C13: for every visitor at most one whorang_visitor_detected or
\* whorang_known_visitor_detected event is fired, however polls, the
\* backend's new_visitor pushes and process_doorbell_event calls interleave
C13_AnnouncedAtMostOnce ==
    [][\A v \in 1..MaxVisitor :
          /\ Cardinality(Announcing(fired', v)) <= 1
          /\ Announcing(fired', v) # {} => v \notin announced]_vars

(***************************************************************************)
(* What a poll keeps of the pushed and service-written data                *)
(***************************************************************************)
\* the keys that pushes and service calls write next to the polled ones
WrittenKeys == {"latest_image", "doorbell_state", "visitor_stats", "last_service_call",
                "analysis_status", "ai_processing", "unknown_faces", "face_similarities",
                "person_details"}

\* the step is a poll returning updated_data
SuccessfulPoll ==
    returned'.call = "_async_update_data" /\ returned'.value = "updated_data"

\* C14: a successful poll keeps, with its value, every key of WrittenKeys
\* that was in coordinator.data before the poll
C14_PollKeepsWrittenKeys ==
    [][SuccessfulPoll /\ Truthy(data) =>
          \A k \in WrittenKeys \cap DOMAIN data : k \in DOMAIN data' /\ data'[k] = data[k]]_vars

(***************************************************************************)
(* Reconnecting                                                            *)
(***************************************************************************)
\* the handler starts a connection attempt
ConnectionAttempt == wsPc' = "connect" /\ wsPc # "connect"

\* C15: every connection attempt except the first one of the task follows
\* a sleep of reconnect_delay, which is at least one second
C15_SleepBeforeReconnect ==
    [][ConnectionAttempt =>
          \/ wsPc = "none"
          \/ wsPc = "sleep" /\ reconnect_delay >= initial_reconnect_delay]_vars

(***************************************************************************)
(* Refresh after a message                                                 *)
(***************************************************************************)
\* the frames that are str: plain strings, strings that start with "{" and
\* do not parse, and JSON objects
TextMessages == {m \in WsMessages : m.fmt \in {"string", "badjson", "json"}}

\* C16: every text message received over the WebSocket requests a refresh
\* of the coordinator, a JSON message also when its handler raises
C16_MessageRequestsRefresh ==
    [][\A m \in TextMessages : WsMessage(m) => refresh_requested']_vars

(***************************************************************************)
(* Order and gating of the pipeline's steps                                *)
(***************************************************************************)
\* the steps that follow the analysis: the two events of step 4 and the
\* service call that forwards the event
FanOutSteps == {"whorang_notification_sent", "whorang_media_playback_complete",
                "call_service:whorang.process_doorbell_event"}

\* the place of a pipeline event in the order of _handle_camera_event
Rank(type) ==
    CASE type = "whorang_doorbell_detected" -> 0
      [] type = "whorang_camera_snapshot_captured" -> 1
      [] type = "whorang_intelligent_analysis_complete" -> 2
      [] type \in FanOutSteps -> 3
      [] OTHER -> -1

\* the events of the run in flight come in the order of their ranks, and
\* each one after the event of the rank below it
InOrder(events) ==
    \A i \in DOMAIN events :
        /\ Rank(events[i].type) >= 1 =>
              /\ pipeline.pc = "snapshot"
              /\ \E j \in 1..(i - 1) : Rank(events[j].type) = Rank(events[i].type) - 1
        /\ \A j \in 1..(i - 1) :
              Rank(events[j].type) >= 0 /\ Rank(events[i].type) >= 0 =>
                  \/ Rank(events[j].type) < Rank(events[i].type)
                  \/ Rank(events[j].type) = 3 /\ Rank(events[i].type) = 3

\* the run in flight ends in this step
RunEnds == pipeline.pc = "snapshot" /\ pipeline'.pc # "snapshot"

\* C17: the events of one run are fired in the order doorbell_detected,
\* camera_snapshot_captured, intelligent_analysis_complete, then the fan-out
\* steps; a run whose snapshot fails fires and calls nothing after
\* doorbell_detected; a run whose analysis fails starts no fan-out step
C17_PipelineOrder ==
    [][/\ (\E i \in DOMAIN fired' : Rank(fired'[i].type) = 0) =>
              fired' = <<Event("whorang_doorbell_detected", NoVisitor)>> /\ pipeline'.pc = "snapshot"
       /\ (pipeline.pc = "snapshot" /\ pipeline'.pc = "snapshot") =>
              \A i \in DOMAIN fired' : Rank(fired'[i].type) < 1
       /\ (pipeline.pc # "snapshot") =>
              \A i \in DOMAIN fired' : Rank(fired'[i].type) < 1
       /\ RunEnds => InOrder(<<Event("whorang_doorbell_detected", NoVisitor)>> \o fired')
       /\ RunEnds /\ ~pipeline.snapshot_ok => fired' = <<>>
       /\ RunEnds /\ (~pipeline.backend_ok \/ pipeline'.pc = "no_analysis") =>
              \A i \in DOMAIN fired' : Rank(fired'[i].type) < 2]_vars

\* a run whose snapshot was captured and whose analysis failed has ended
\* after firing camera_snapshot_captured only
C17_Witness ==
    /\ pipeline.pc = "no_analysis" /\ pipeline.snapshot_ok
    /\ fired = <<Event("whorang_camera_snapshot_captured", NoVisitor)>>

(***************************************************************************)
(* Scheduled stop of the display                                           *)
(***************************************************************************)
\* the call has returned and every stop_display task it created has run
DisplayDone == displayPc = 0 /\ stop_tasks = 0

\* C18: with display_duration > 0, every display player that was sent the
\* snapshot is eventually sent exactly one media_stop addressed to it, and
\* no other player is sent one
C18_DisplayStopped ==
    /\ [](DisplayDone /\ display_duration > 0 =>
            \A p \in Players : stopped[p] = IF p \in played THEN 1 ELSE 0)
    /\ (displayPc # 0 ~> DisplayDone)

====
